---- MODULE Spec2Model ----
(***************************************************************************)
(* State-machine model of the chart classes of plot.py (Plot, BoxedPlot,   *)
(* AlignmentChart, TrianglePlot, RadarPlot): the point list, the           *)
(* crowdsource consent list and the crowdsource ledger of one chart        *)
(* object, and the public methods that read or change them.                *)
(*                                                                         *)
(* Python values are represented as follows.                               *)
(*   - a str is the tuple of its characters ("a " is <<"a", " ">>, "" is   *)
(*     <<>>), so that str.replace(" ", "") is computed, not assumed;       *)
(*   - an argument or attribute that may be None is None (<<>>) or         *)
(*     Some(v) (<<v>>);                                                    *)
(*   - a point tuple (label, x, y, err_x, err_y) is a 5-tuple, p[0] in     *)
(*     Python being p[1] here; a RadarPlot point (label, vals) is a pair;  *)
(*   - the dict __crowdsourced_points is the sequence of its (key, value)  *)
(*     pairs in insertion order (the order dict.keys() iterates in); its   *)
(*     values, dicts keyed by contributor id, are functions on the set of  *)
(*     their keys;                                                         *)
(*   - the result of a true division x / l is the exact fraction <<x, l>>. *)
(* A call is one step: it runs the whole method and leaves its name, its     *)
(* arguments, its result and the state it started in in op, args, ret and  *)
(* pre; the step Return hands the result to the caller, after which the    *)
(* next call can be made.                                                  *)
(* The "except AttributeError" branches of the crowdsource methods guard   *)
(* against objects that lack the two crowdsource attributes; __init__      *)
(* sets both, so no object constructed by this code takes them.            *)
(***************************************************************************)
EXTENDS Integers, Sequences, FiniteSets, TLC

\* ------------------------------------------------------------------ bounds
\* The largest chart the model explores: the number of points, consent pairs
\* and ledger labels it holds together.
MaxSize == 3

\* The coordinates tried against the bounds checks run from -GridMax to GridMax,
\* one step past the widest fixed bounds ([-10, 10]).
GridMax == 11

\* The largest number of axis labels given to a RadarPlot; the value vectors
\* tried on it have up to one element more.
MaxAxes == 2

\* ------------------------------------------------------------ Python values
None == <<>>
Some(v) == <<v>>

\* The strings used as labels: "a" and "a " (differing in a space only).
StrA == <<"a">>
StrASp == <<"a", " ">>
StrEmpty == <<>>
Labels == {StrA, StrASp}
\* The label argument of plot_point and remove_point: a str or None.
LabelArgs == {None} \cup {Some(l) : l \in Labels \cup {StrEmpty}}
\* Contributor ids.
Ids == {1, 2}
\* The four chart classes with (x, y) points.
Kinds == {"Plot", "BoxedPlot", "AlignmentChart", "TrianglePlot"}
\* (x, y, err_x, err_y) arguments of plot_point.
PointInputs == {<<5, 5, 0, 0>>, <<3, 3, 1, 3>>, <<10, 5, 1, 0>>}
\* (x, y) arguments of add_crowdsource_point.
CrowdInputs == {<<3, 4>>, <<11, 0>>}
\* Constructor bounds (minx, maxx, miny, maxy) given to Plot.
PlotInitBounds == {<<None, None, None, None>>, <<None, Some(10), Some(0), None>>}
\* The x and y arguments tried against the bounds checks.
BoundsGrid == (-GridMax)..GridMax
\* The err_x and err_y arguments tried with them.
GridErrs == {0, 1, 3}
\* Constructor bounds of the Plot objects they are tried on: each bound is None
\* or a number, the four numbers differing.
PlotGridBounds ==
  { <<a, b, c, d>> : a \in {None, Some(-3)}, b \in {None, Some(4)},
                     c \in {None, Some(-2)}, d \in {None, Some(6)} }
\* plot_args dictionaries given to Plot.edit_plot (a missing key reads as None).
EditArgs == { [minx |-> None, maxx |-> Some(4), miny |-> None, maxy |-> None] }

\* The callers of SpecInterleaved.
Callers == {1, 2}

VARIABLES
  kind,                 \* the class of the chart object
  minx, maxx, miny, maxy,   \* __minx, __maxx, __miny, __maxy
  labels,               \* RadarPlot's __labels: a list of str, or a str
  axes,                 \* the number of axis labels a RadarPlot was last given
  points,               \* __points
  crowdsourced_points,  \* __crowdsourced_points
  crowdsourceable,      \* __crowdsourceable
  op, args, ret,        \* the last call: method name, arguments, result
  pre,                  \* the lists and the ledger as they were before the last call
  contributed,          \* history: the (contributor, label, (x, y)) of the accepted
                        \* contributions not withdrawn since (kept by SpecWithdraw only)
  callers,              \* SpecInterleaved: each caller's position in plot_point and its locals
  overlapped,           \* history: some call started while another call was running
  both_scanned          \* history: both running calls finished their scans for the same
                        \* label without a match before either appended

vars == <<kind, minx, maxx, miny, maxy, labels, axes, points, crowdsourced_points, crowdsourceable,
          op, args, ret, pre, contributed, callers, overlapped, both_scanned>>

\* ------------------------------------------------------------------ results
\* A returned (code, payload) tuple.
Ret(code, payload) == [shape |-> "tuple", code |-> code, payload |-> payload]
\* A method that falls off its end returns None.
RetNone == [shape |-> "None", code |-> -1, payload |-> ""]
\* An exception that leaves the method.
Raised(exc) == [shape |-> "raise", code |-> -1, payload |-> exc]
\* A returned list of points.
RetList(l) == [shape |-> "list", code |-> -1, payload |-> l]

\* The snapshot kept while no call is being reported.
NoSnapshot == [points |-> <<>>, crowdsourced_points |-> <<>>, crowdsourceable |-> <<>>]

\* The number of items the chart holds.
Size == Len(points) + Len(crowdsourceable) + Len(crowdsourced_points)

\* The lists and the ledger as they are now.
Snapshot ==
  [points |-> points, crowdsourced_points |-> crowdsourced_points,
   crowdsourceable |-> crowdsourceable]

\* ------------------------------------------------------------ bounds checks
\* Plot/BoxedPlot/AlignmentChart.__check_bounds: a None bound does not constrain.
rect_check_bounds(x, y) ==
  ~( (minx # None /\ x < minx[1]) \/ (maxx # None /\ x > maxx[1])
     \/ (miny # None /\ y < miny[1]) \/ (maxy # None /\ y > maxy[1]) )

\* TrianglePlot.__check_sign
check_sign(x1, y1, x2, y2, x3, y3) == (x1 - x3) * (y2 - y3) - (x2 - x3) * (y1 - y3)

\* Mutant of tri_check_bounds: the apex is put at (__maxx, __maxy) instead of
\* (__maxx / 2, __maxy).
tri_check_bounds_apex_at_maxx(x, y) ==
  LET d1 == check_sign(x, y, minx[1], miny[1], maxx[1], maxy[1])
      d2 == check_sign(x, y, maxx[1], maxy[1], maxx[1], miny[1])
      d3 == check_sign(x, y, maxx[1], miny[1], minx[1], miny[1])
      negative == (d1 < 0) \/ (d2 < 0) \/ (d3 < 0)
      positive == (d1 > 0) \/ (d2 > 0) \/ (d3 > 0)
  IN ~(negative /\ positive)

\* TrianglePlot.__check_bounds; __maxx is the constant 10, so __maxx / 2 is exactly 5.
tri_check_bounds(x, y) ==
  LET d1 == check_sign(x, y, minx[1], miny[1], maxx[1] \div 2, maxy[1])
      d2 == check_sign(x, y, maxx[1] \div 2, maxy[1], maxx[1], miny[1])
      d3 == check_sign(x, y, maxx[1], miny[1], minx[1], miny[1])
      negative == (d1 < 0) \/ (d2 < 0) \/ (d3 < 0)
      positive == (d1 > 0) \/ (d2 > 0) \/ (d3 > 0)
  IN ~(negative /\ positive)

\* self.__check_bounds(x, y) of the chart's class.
check_bounds(x, y) ==
  IF kind = "TrianglePlot" THEN tri_check_bounds(x, y) ELSE rect_check_bounds(x, y)

\* Mutant of plot_point_in_bounds: the rectangular charts test the upper corner
\* (x + err_x, y + err_y) only.
plot_point_in_bounds_upper_corner_only(x, y, err_x, err_y) ==
  IF kind = "TrianglePlot"
  THEN /\ check_bounds(x + err_x, y + err_y) /\ check_bounds(x - err_x, y - err_y)
       /\ check_bounds(x + err_x, y) /\ check_bounds(x, y + err_y)
       /\ check_bounds(x, y - err_y) /\ check_bounds(x - err_x, y)
  ELSE check_bounds(x + err_x, y + err_y)

\* The condition under which plot_point goes on to store the point (the negation
\* of its first "if"): two corners on the rectangular charts, six probes on the
\* triangle.
plot_point_in_bounds(x, y, err_x, err_y) ==
  IF kind = "TrianglePlot"
  THEN /\ check_bounds(x + err_x, y + err_y) /\ check_bounds(x - err_x, y - err_y)
       /\ check_bounds(x + err_x, y) /\ check_bounds(x, y + err_y)
       /\ check_bounds(x, y - err_y) /\ check_bounds(x - err_x, y)
  ELSE check_bounds(x + err_x, y + err_y) /\ check_bounds(x - err_x, y - err_y)

\* str(bound) or "_" in plot_point's error message.
bound_str(b) == IF b # None THEN b[1] ELSE "_"

\* The payload of plot_point's out-of-bounds error: the message and the bounds it
\* spells out (the triangle's message names none).
plot_point_error ==
  IF kind = "TrianglePlot"
  THEN <<"Error: Plot point and error cannot be out of triangle bounds!">>
  ELSE <<"Error: Plot point and error cannot be out of bounds: ",
         bound_str(minx), bound_str(maxx), bound_str(miny), bound_str(maxy)>>

\* --------------------------------------------------------------- point list
\* The first index i with pts[i][0] == label, 0 when there is none. A None label
\* equals no stored label, stored labels being strings.
first_index(pts, label) ==
  IF label # None /\ \E i \in 1..Len(pts) : pts[i][1] = label[1]
  THEN CHOOSE i \in 1..Len(pts) :
         /\ pts[i][1] = label[1]
         /\ \A j \in 1..(i - 1) : pts[j][1] # label[1]
  ELSE 0

\* list.remove / del of the element at index i.
remove_at(s, i) == SubSeq(s, 1, i - 1) \o SubSeq(s, i + 1, Len(s))

\* Mutant of plot_point_store: the scan never matches, every call appends.
plot_point_store_always_appends(pts, label, x, y, err_x, err_y) ==
  Append(pts, <<IF label # None THEN label[1] ELSE StrEmpty, x, y, err_x, err_y>>)

\* Mutant of plot_point_store: a matching entry is dropped and the new one is
\* appended at the end.
plot_point_store_moves_to_end(pts, label, x, y, err_x, err_y) ==
  LET i == first_index(pts, label)
      new == <<IF label # None THEN label[1] ELSE StrEmpty, x, y, err_x, err_y>>
  IN IF i # 0 THEN Append(remove_at(pts, i), new) ELSE Append(pts, new)

\* The point list after plot_point's scan-and-replace or append.
plot_point_store(pts, label, x, y, err_x, err_y) ==
  LET i == first_index(pts, label)
  IN IF i # 0
     THEN [pts EXCEPT ![i] = <<label[1], x, y, err_x, err_y>>]
     ELSE Append(pts, <<IF label # None THEN label[1] ELSE StrEmpty, x, y, err_x, err_y>>)

\* lookup_label(label) on a point list: (0, (x, y)) of the first match or (1, message).
lookup_label_in(pts, label) ==
  LET i == first_index(pts, label)
  IN IF i # 0 THEN Ret(0, <<pts[i][2], pts[i][3]>>)
     ELSE Ret(1, "Name not found on that plot.")

\* lookup_label(label) on the chart.
lookup_label(label) == lookup_label_in(points, label)

\* ------------------------------------------------------------------- ledger
\* dict.get(label) is not None: the values are dicts, never None.
has_key(led, label) == \E i \in 1..Len(led) : led[i][1] = label

key_index(led, label) == CHOOSE i \in 1..Len(led) : led[i][1] = label

\* led[label]
get_entry(led, label) == led[key_index(led, label)][2]

\* Mutant of del_key: the contributions are dropped but the key stays, as
\* "led[label] = {}" would do.
del_key_keeps_key(led, label) ==
  [led EXCEPT ![key_index(led, label)] = <<label, [i \in {} |-> <<0, 0>>]>>]

\* del led[label]
del_key(led, label) == remove_at(led, key_index(led, label))

\* The empty inner dict {}.
EmptyDict == [i \in {} |-> <<0, 0>>]

\* d[id] = xy on an inner dict.
dict_set(d, id, xy) == [i \in (DOMAIN d) \cup {id} |-> IF i = id THEN xy ELSE d[i]]

\* Mutant of dict_del: every contribution under the label is dropped, as
\* "led[label] = {}" would do.
dict_del_all(d, id) == [i \in {} |-> <<0, 0>>]

\* del d[id] on an inner dict.
dict_del(d, id) == [i \in (DOMAIN d) \ {id} |-> d[i]]

\* "if led.get(label) is None: led[label] = {}" followed by "led[label][id] = xy".
ledger_store(led, label, id, xy) ==
  IF has_key(led, label)
  THEN [led EXCEPT ![key_index(led, label)] = <<label, dict_set(@[2], id, xy)>>]
  ELSE Append(led, <<label, dict_set(EmptyDict, id, xy)>>)

\* ------------------------------------------------- crowdsource averaging
\* str.replace(" ", "")
replace_spaces(str) == SelectSeq(str, LAMBDA c : c # " ")

\* The sums of the x and of the y coordinates of an inner dict's values
\* (the loop "x += x2; y += y2").
RECURSIVE dict_sum(_, _)
dict_sum(d, k) ==
  IF DOMAIN d = {} THEN 0
  ELSE LET id == CHOOSE i \in DOMAIN d : TRUE
       IN d[id][k] + dict_sum(dict_del(d, id), k)

\* The index found by the inner scan of update_points_with_crowdsource: the first
\* i in range(len(self.__points)) whose label in updated_points, spaces removed,
\* equals the ledger key; 0 for the code's -1.
point_index(updated, n, label) ==
  IF \E i \in 1..n : replace_spaces(updated[i][1]) = label
  THEN CHOOSE i \in 1..n :
         /\ replace_spaces(updated[i][1]) = label
         /\ \A j \in 1..(i - 1) : replace_spaces(updated[j][1]) # label
  ELSE 0

\* Mutant of fold_entry: a matched point's sums are divided by the number of
\* contributions, the stored point not counted.
fold_entry_base_not_counted(updated, pts, label, d) ==
  LET i == point_index(updated, Len(pts), label)
      x == (IF i # 0 THEN pts[i][2] ELSE 0) + dict_sum(d, 1)
      y == (IF i # 0 THEN pts[i][3] ELSE 0) + dict_sum(d, 2)
      l == Cardinality(DOMAIN d) + 1
  IN IF l - 1 = 0 THEN [raised |-> i = 0, list |-> updated]
     ELSE IF i # 0
     THEN [raised |-> FALSE,
           list |-> [updated EXCEPT
                       ![i] = <<label, <<x, l - 1>>, <<y, l - 1>>, updated[i][4], updated[i][5]>>]]
     ELSE [raised |-> FALSE,
           list |-> Append(updated, <<label, <<x, l - 1>>, <<y, l - 1>>, 0, 0>>)]

\* One iteration of the loop over the ledger keys, for the entry <<label, d>>:
\* updated_points after the iteration, or raised when the division by l - 1 = 0
\* raises ZeroDivisionError. Coordinates written by the loop are fractions
\* <<numerator, denominator>>.
fold_entry(updated, pts, label, d) ==
  LET i == point_index(updated, Len(pts), label)
      x == (IF i # 0 THEN pts[i][2] ELSE 0) + dict_sum(d, 1)
      y == (IF i # 0 THEN pts[i][3] ELSE 0) + dict_sum(d, 2)
      l == Cardinality(DOMAIN d) + 1
  IN IF i # 0
     THEN [raised |-> FALSE,
           list |-> [updated EXCEPT
                       ![i] = <<label, <<x, l>>, <<y, l>>, updated[i][4], updated[i][5]>>]]
     ELSE IF l - 1 = 0 THEN [raised |-> TRUE, list |-> updated]
     ELSE [raised |-> FALSE,
           list |-> Append(updated, <<label, <<x, l - 1>>, <<y, l - 1>>, 0, 0>>)]

\* The loop over self.__crowdsourced_points.keys() from entry k on.
RECURSIVE fold_from(_, _, _, _)
fold_from(updated, pts, led, k) ==
  IF k > Len(led) THEN [raised |-> FALSE, list |-> updated]
  ELSE LET next == fold_entry(updated, pts, led[k][1], led[k][2])
       IN IF next.raised THEN next
          ELSE fold_from(next.list, pts, led, k + 1)

\* self.__points.copy(): a stored number n reads as the fraction <<n, 1>>.
RECURSIVE points_copy(_)
points_copy(pts) ==
  IF pts = <<>> THEN <<>>
  ELSE <<<<pts[1][1], <<pts[1][2], 1>>, <<pts[1][3], 1>>, pts[1][4], pts[1][5]>>>>
       \o points_copy(Tail(pts))

\* update_points_with_crowdsource on a point list and a ledger: the returned list,
\* or the exception that leaves the method (ZeroDivisionError is not caught by
\* "except AttributeError").
updated_points_of(pts, led) ==
  LET r == fold_from(points_copy(pts), pts, led, 1)
  IN IF r.raised THEN Raised("ZeroDivisionError") ELSE RetList(r.list)

\* A caller that is in no call: its last result is in ret.
IdleCaller == [pc |-> "idle", label |-> None, p |-> <<0, 0, 0, 0>>, n |-> 0, i |-> 0, ret |-> RetNone]

\* ------------------------------------------------------------------ actions
\* The constructors: Plot takes its bounds as arguments, BoxedPlot and
\* AlignmentChart fix them at [-10, 10], TrianglePlot at [0, 10].
Init ==
  /\ kind \in Kinds
  /\ \E b \in PlotInitBounds :
       LET fixed == IF kind = "Plot" THEN b
                    ELSE IF kind = "TrianglePlot" THEN <<Some(0), Some(10), Some(0), Some(10)>>
                    ELSE <<Some(-10), Some(10), Some(-10), Some(10)>>
       IN /\ minx = fixed[1] /\ maxx = fixed[2] /\ miny = fixed[3] /\ maxy = fixed[4]
  /\ labels = <<>> /\ axes = 0
  /\ points = <<>>
  /\ crowdsourced_points = <<>>
  /\ crowdsourceable = <<>>
  /\ op = "idle"
  /\ args = <<>>
  /\ ret = RetNone
  /\ pre = NoSnapshot
  /\ contributed = {}
  /\ callers = [c \in Callers |-> IdleCaller] /\ overlapped = FALSE /\ both_scanned = FALSE

\* A call is made when no call is being reported (the methods run to completion,
\* one after the other); it records its name, its arguments and the state it
\* started in.
Call(name, a) ==
  op = "idle" /\ op' = name /\ args' = a /\ pre' = Snapshot
  /\ UNCHANGED <<contributed, callers, overlapped, both_scanned>>

\* The caller has taken the result of the last call: nothing is left of the call
\* but its effect on the chart.
Return ==
  /\ op # "idle"
  /\ op' = "idle" /\ args' = <<>> /\ ret' = RetNone /\ pre' = NoSnapshot
  /\ UNCHANGED <<kind, labels, axes, minx, maxx, miny, maxy, points,
               crowdsourced_points, crowdsourceable, contributed,
               callers, overlapped, both_scanned>>

plot_point(label, x, y, err_x, err_y) ==
  /\ Call("plot_point", <<label, x, y, err_x, err_y>>)
  /\ IF ~plot_point_in_bounds(x, y, err_x, err_y)
     THEN /\ ret' = Ret(1, plot_point_error)
          /\ UNCHANGED points
     ELSE /\ first_index(points, label) = 0 => Size < MaxSize
          /\ points' = plot_point_store(points, label, x, y, err_x, err_y)
          /\ ret' = Ret(0, "")
  /\ UNCHANGED <<kind, labels, axes, minx, maxx, miny, maxy,
               crowdsourced_points, crowdsourceable>>

remove_point(label) ==
  /\ Call("remove_point", <<label>>)
  /\ IF first_index(points, label) = 0
     THEN /\ ret' = Ret(1, "Error: You haven't plotted yourself in this plot.")
          /\ UNCHANGED <<points, crowdsourced_points>>
     ELSE /\ points' = remove_at(points, first_index(points, label))
          /\ crowdsourced_points' =
               IF has_key(crowdsourced_points, label[1])
               THEN del_key(crowdsourced_points, label[1])
               ELSE crowdsourced_points
          /\ ret' = Ret(0, "")
  /\ UNCHANGED <<kind, labels, axes, minx, maxx, miny, maxy, crowdsourceable>>

\* Plot.edit_plot: a bound given in plot_args replaces the stored one. The
\* edit_plot of the other classes changes titles only, which are not modelled.
edit_plot(plot_args) ==
  /\ kind = "Plot"
  /\ Call("edit_plot", <<plot_args>>)
  /\ minx' = (IF plot_args.minx # None THEN plot_args.minx ELSE minx)
  /\ maxx' = (IF plot_args.maxx # None THEN plot_args.maxx ELSE maxx)
  /\ miny' = (IF plot_args.miny # None THEN plot_args.miny ELSE miny)
  /\ maxy' = (IF plot_args.maxy # None THEN plot_args.maxy ELSE maxy)
  /\ ret' = RetNone
  /\ UNCHANGED <<kind, labels, axes, points, crowdsourced_points, crowdsourceable>>

\* The value of the name "id" after the loop
\* "for (id, consent_label) in self.__crowdsourceable": the loop rebinds the
\* parameter, so after a non-empty list it is the id of the list's last pair.
id_after_consent_loop(id, consent) ==
  IF Len(consent) = 0 THEN id ELSE consent[Len(consent)][1]

\* Mutant of consent_found: any recorded consent counts, whatever its label.
consent_found_any_label(consent, label) == Len(consent) > 0

\* The flag "consent" after that loop: some pair of the list carries the label.
consent_found(consent, label) == \E i \in 1..Len(consent) : consent[i][2] = label

\* What add_crowdsource_point returns after storing: BoxedPlot's method ends
\* without a return statement, the others return (0, message).
add_crowdsource_point_result ==
  IF kind = "BoxedPlot" THEN RetNone ELSE Ret(0, "Your contribution has been added!")

\* Mutant of add_crowdsource_point: the bounds are checked before the consent.
add_crowdsource_point_bounds_first(id, label, x, y) ==
  /\ Call("add_crowdsource_point", <<id, label, x, y>>)
  /\ IF ~check_bounds(x, y)
     THEN /\ ret' = Ret(1, "Error: The point cannot be out of bounds!")
          /\ UNCHANGED crowdsourced_points
     ELSE IF ~consent_found(crowdsourceable, label)
     THEN /\ ret' = Ret(1, "That person has not consented to being crowdsource plotted!")
          /\ UNCHANGED crowdsourced_points
     ELSE /\ ~has_key(crowdsourced_points, label) => Size < MaxSize
          /\ crowdsourced_points' =
               ledger_store(crowdsourced_points, label,
                            id_after_consent_loop(id, crowdsourceable), <<x, y>>)
          /\ ret' = add_crowdsource_point_result
  /\ UNCHANGED <<kind, labels, axes, minx, maxx, miny, maxy, points, crowdsourceable>>

add_crowdsource_point(id, label, x, y) ==
  /\ Call("add_crowdsource_point", <<id, label, x, y>>)
  /\ IF ~consent_found(crowdsourceable, label)
     THEN /\ ret' = Ret(1, "That person has not consented to being crowdsource plotted!")
          /\ UNCHANGED crowdsourced_points
     ELSE IF ~check_bounds(x, y)
     THEN /\ ret' = Ret(1, "Error: The point cannot be out of bounds!")
          /\ UNCHANGED crowdsourced_points
     ELSE /\ ~has_key(crowdsourced_points, label) => Size < MaxSize
          /\ crowdsourced_points' =
               ledger_store(crowdsourced_points, label,
                            id_after_consent_loop(id, crowdsourceable), <<x, y>>)
          /\ ret' = add_crowdsource_point_result
  /\ UNCHANGED <<kind, labels, axes, minx, maxx, miny, maxy, points, crowdsourceable>>

\* Mutant of consent_index: the membership test never finds the pair.
consent_index_never_found(consent, id, label) == 0

\* "(id, label) in self.__crowdsourceable"
consent_index(consent, id, label) ==
  IF \E i \in 1..Len(consent) : consent[i] = <<id, label>>
  THEN CHOOSE i \in 1..Len(consent) :
         /\ consent[i] = <<id, label>>
         /\ \A j \in 1..(i - 1) : consent[j] # <<id, label>>
  ELSE 0

\* remove_crowdsource_consent: list.remove raises ValueError for a pair that is
\* not in the list, and the method catches AttributeError only.
remove_crowdsource_consent_step(id, label) ==
  IF consent_index(crowdsourceable, id, label) # 0
  THEN /\ crowdsourceable' = remove_at(crowdsourceable, consent_index(crowdsourceable, id, label))
       /\ ret' = Ret(0, "You have removed your consent for that plot.")
  ELSE /\ ret' = Raised("ValueError")
       /\ UNCHANGED crowdsourceable

remove_crowdsource_consent(id, label) ==
  /\ Call("remove_crowdsource_consent", <<id, label>>)
  /\ remove_crowdsource_consent_step(id, label)
  /\ UNCHANGED <<kind, labels, axes, minx, maxx, miny, maxy, points, crowdsourced_points>>

\* Mutant of add_crowdsource_consent: revoking the consent for a label also
\* drops the label's ledger entry.
add_crowdsource_consent_purging(id, label) ==
  /\ Call("add_crowdsource_consent", <<id, label>>)
  /\ IF consent_index(crowdsourceable, id, label) # 0
     THEN /\ remove_crowdsource_consent_step(id, label)
          /\ crowdsourced_points' =
               IF has_key(crowdsourced_points, label)
               THEN del_key(crowdsourced_points, label)
               ELSE crowdsourced_points
     ELSE /\ Size < MaxSize
          /\ crowdsourceable' = Append(crowdsourceable, <<id, label>>)
          /\ ret' = Ret(0, "You have now consented to being crowdsourced for this plot.")
          /\ UNCHANGED crowdsourced_points
  /\ UNCHANGED <<kind, labels, axes, minx, maxx, miny, maxy, points>>

add_crowdsource_consent(id, label) ==
  /\ Call("add_crowdsource_consent", <<id, label>>)
  /\ IF consent_index(crowdsourceable, id, label) # 0
     THEN remove_crowdsource_consent_step(id, label)
     ELSE /\ Size < MaxSize
          /\ crowdsourceable' = Append(crowdsourceable, <<id, label>>)
          /\ ret' = Ret(0, "You have now consented to being crowdsourced for this plot.")
  /\ UNCHANGED <<kind, labels, axes, minx, maxx, miny, maxy, points, crowdsourced_points>>

remove_crowdsource_point(id, label) ==
  /\ Call("remove_crowdsource_point", <<id, label>>)
  /\ IF ~has_key(crowdsourced_points, label)
     THEN /\ Size < MaxSize
          /\ crowdsourced_points' = Append(crowdsourced_points, <<label, EmptyDict>>)
          /\ ret' = Ret(1, "You can't remove your crowdsource contribution to a point that doesn't exist!")
     ELSE IF id \notin DOMAIN get_entry(crowdsourced_points, label)
     THEN /\ ret' = Ret(1, "You haven't made a crowdsource contribution for that label yet!")
          /\ UNCHANGED crowdsourced_points
     ELSE /\ crowdsourced_points' =
               [crowdsourced_points EXCEPT
                  ![key_index(crowdsourced_points, label)] = <<label, dict_del(@[2], id)>>]
          /\ ret' = Ret(0, "You have removed your crowdsource point for that plot.")
  /\ UNCHANGED <<kind, labels, axes, minx, maxx, miny, maxy, points, crowdsourceable>>

\* Mutant of update_points_with_crowdsource: the fold works on the stored list
\* itself instead of a copy of it, so what it rewrites and appends is stored
\* (the coordinates shown rounded down).
update_points_with_crowdsource_in_place ==
  /\ Call("update_points_with_crowdsource", <<>>)
  /\ ret' = updated_points_of(points, crowdsourced_points)
  /\ points' = (IF ret'.shape = "list"
                THEN LET frac_floor(f) == f[1] \div f[2]
                     IN [i \in 1..Len(ret'.payload) |->
                          <<ret'.payload[i][1], frac_floor(ret'.payload[i][2]),
                            frac_floor(ret'.payload[i][3]), ret'.payload[i][4], ret'.payload[i][5]>>]
                ELSE points)
  /\ UNCHANGED <<kind, labels, axes, minx, maxx, miny, maxy,
               crowdsourced_points, crowdsourceable>>

\* update_points_with_crowdsource: builds and returns a list, or raises; it
\* assigns to no attribute (the assignment in "except AttributeError" aside).
update_points_with_crowdsource ==
  /\ Call("update_points_with_crowdsource", <<>>)
  /\ ret' = updated_points_of(points, crowdsourced_points)
  /\ UNCHANGED <<kind, labels, axes, minx, maxx, miny, maxy, points,
               crowdsourced_points, crowdsourceable>>

Next ==
  \/ \E label \in LabelArgs, p \in PointInputs : plot_point(label, p[1], p[2], p[3], p[4])
  \/ \E label \in LabelArgs : remove_point(label)
  \/ \E plot_args \in EditArgs : edit_plot(plot_args)
  \/ \E id \in Ids, label \in Labels, c \in CrowdInputs : add_crowdsource_point(id, label, c[1], c[2])
  \/ \E id \in Ids, label \in Labels : add_crowdsource_consent(id, label)
  \/ \E id \in Ids, label \in Labels : remove_crowdsource_consent(id, label)
  \/ \E id \in Ids, label \in Labels : remove_crowdsource_point(id, label)
  \/ update_points_with_crowdsource
  \/ Return

Spec == Init /\ [][Next]_vars

\* ------------------------------------------- the history of contributions
\* The contributions that stand once the last call has returned: an
\* add_crowdsource_point(c, label, x, y) that returned code 0 enters
\* (c, label, (x, y)) in the place of c's earlier one for the label; a
\* remove_point(label) takes out those of the label, a
\* remove_crowdsource_point(c, label) the one of c for the label.
contributed_after_call ==
  IF op = "add_crowdsource_point" /\ ret.shape = "tuple" /\ ret.code = 0
  THEN {t \in contributed : <<t[1], t[2]>> # <<args[1], args[2]>>}
         \cup {<<args[1], args[2], <<args[3], args[4]>>>>}
  ELSE IF op = "remove_point" /\ args[1] # None
  THEN {t \in contributed : t[2] # args[1][1]}
  ELSE IF op = "remove_crowdsource_point"
  THEN {t \in contributed : <<t[1], t[2]>> # <<args[1], args[2]>>}
  ELSE contributed

\* Return, with the history brought up to date.
ReturnTracked ==
  /\ op # "idle"
  /\ op' = "idle" /\ args' = <<>> /\ ret' = RetNone /\ pre' = NoSnapshot
  /\ contributed' = contributed_after_call
  /\ UNCHANGED <<kind, labels, axes, minx, maxx, miny, maxy, points,
               crowdsourced_points, crowdsourceable, callers, overlapped, both_scanned>>

\* The calls that give, use or take away consent, contributions and the points
\* they are for (add_crowdsource_consent revokes as well), each followed by
\* ReturnTracked; the points are plotted at (5, 5).
NextWithdraw ==
  \/ \E label \in LabelArgs : plot_point(label, 5, 5, 0, 0)
  \/ \E label \in LabelArgs : remove_point(label)
  \/ \E id \in Ids, label \in Labels, c \in CrowdInputs : add_crowdsource_point(id, label, c[1], c[2])
  \/ \E id \in Ids, label \in Labels : add_crowdsource_consent(id, label)
  \/ \E id \in Ids, label \in Labels : remove_crowdsource_point(id, label)
  \/ ReturnTracked

SpecWithdraw == Init /\ [][NextWithdraw]_vars

\* ------------------------------------------------- BoxedPlot at its bounds
\* (x, y, err_x, err_y) arguments of plot_point at the corners of [-10, 10]
\* and one that an error carries out of it.
BoxedPointInputs == {<<10, 10, 0, 0>>, <<-10, -10, 0, 0>>, <<10, 0, 1, 0>>}
\* (x, y) arguments of add_crowdsource_point: the same corners and one outside.
BoxedCrowdInputs == {<<10, 10>>, <<-10, -10>>, <<11, 0>>}

\* BoxedPlot.__init__: the bounds are [-10, 10] on both axes.
InitBoxed ==
  /\ kind = "BoxedPlot"
  /\ minx = Some(-10) /\ maxx = Some(10) /\ miny = Some(-10) /\ maxy = Some(10)
  /\ labels = <<>> /\ axes = 0
  /\ points = <<>>
  /\ crowdsourced_points = <<>>
  /\ crowdsourceable = <<>>
  /\ op = "idle"
  /\ args = <<>>
  /\ ret = RetNone
  /\ pre = NoSnapshot
  /\ contributed = {}
  /\ callers = [c \in Callers |-> IdleCaller] /\ overlapped = FALSE /\ both_scanned = FALSE

\* The methods of BoxedPlot that change or fold points and contributions; its
\* edit_plot changes no bound.
NextBoxed ==
  \/ \E label \in LabelArgs, p \in BoxedPointInputs : plot_point(label, p[1], p[2], p[3], p[4])
  \/ \E label \in LabelArgs : remove_point(label)
  \/ \E id \in Ids, label \in Labels, c \in BoxedCrowdInputs :
       add_crowdsource_point(id, label, c[1], c[2])
  \/ \E id \in Ids, label \in Labels : add_crowdsource_consent(id, label)
  \/ \E id \in Ids, label \in Labels : remove_crowdsource_point(id, label)
  \/ update_points_with_crowdsource
  \/ Return

SpecBoxed == InitBoxed /\ [][NextBoxed]_vars

\* ------------------------------------------------- the bounds checks alone
\* A chart of any class, the Plot objects with every combination of set and
\* unset bounds, empty or holding the point ("a ", 2, 2, 0, 0), which every one
\* of these charts accepts.
InitBounds ==
  /\ kind \in Kinds
  /\ \E b \in PlotGridBounds :
       LET fixed == IF kind = "Plot" THEN b
                    ELSE IF kind = "TrianglePlot" THEN <<Some(0), Some(10), Some(0), Some(10)>>
                    ELSE <<Some(-10), Some(10), Some(-10), Some(10)>>
       IN /\ minx = fixed[1] /\ maxx = fixed[2] /\ miny = fixed[3] /\ maxy = fixed[4]
  /\ labels = <<>> /\ axes = 0
  /\ points \in {<<>>, << <<StrASp, 2, 2, 0, 0>> >>}
  /\ crowdsourced_points = <<>>
  /\ crowdsourceable = <<>>
  /\ op = "idle"
  /\ args = <<>>
  /\ ret = RetNone
  /\ pre = NoSnapshot
  /\ contributed = {}
  /\ callers = [c \in Callers |-> IdleCaller] /\ overlapped = FALSE /\ both_scanned = FALSE

\* One plot_point call for the label "a" on each such chart, with every
\* coordinate of the grid and every error.
NextBounds ==
  \/ /\ op = "idle"
     /\ first_index(points, Some(StrA)) = 0
     /\ \E x \in BoundsGrid, y \in BoundsGrid, err_x \in GridErrs, err_y \in GridErrs :
          plot_point(Some(StrA), x, y, err_x, err_y)
  \/ Return

SpecBounds == InitBounds /\ [][NextBounds]_vars

\* ---------------------------------------------------------------- RadarPlot
\* The values of a vector: the two ends of [0, 10] and their outer neighbours.
RadarValues == {-1, 0, 10, 11}
\* The vals arguments of RadarPlot.plot_point: every vector over these values
\* with 0 to MaxAxes + 1 elements.
RadarVectors == UNION { [1..n -> RadarValues] : n \in 0..(MaxAxes + 1) }
\* The label arguments of RadarPlot.plot_point.
RadarLabelArgs == {None, Some(StrA)}
\* The largest point list explored on a RadarPlot: one point per label argument.
MaxRadarPoints == Cardinality(RadarLabelArgs)
\* One axis label, the str "x".
AxisLabel == <<"x">>
\* The lists of axis labels, as " ".join leaves them in __init__ and as
\* edit_plot receives them under the key 'labels'.
AxisLabelLists == { [i \in 1..n |-> AxisLabel] : n \in 1..MaxAxes }
\* The plot_args given to RadarPlot.edit_plot: 'labels' is missing or a list
\* of labels; 'title' and 'custompoints' are missing.
RadarEditArgs == { [labels |-> l] : l \in {None} \cup {Some(x) : x \in AxisLabelLists} }

\* " ".join(strs)
RECURSIVE join(_)
join(strs) ==
  IF Len(strs) = 0 THEN <<>>
  ELSE IF Len(strs) = 1 THEN strs[1]
  ELSE strs[1] \o <<" ">> \o join(Tail(strs))

\* vals[::-1][-1:] + vals[::-1][:-1], applied to vectors of two or more elements.
radar_reorder(vals) ==
  LET reversed == [i \in 1..Len(vals) |-> vals[Len(vals) - i + 1]]
  IN IF Len(vals) >= 2
     THEN SubSeq(reversed, Len(vals), Len(vals)) \o SubSeq(reversed, 1, Len(vals) - 1)
     ELSE vals

\* RadarPlot.lookup_label on a point list: the vector of the first point with
\* the label, reordered the same way when it has two or more elements.
radar_lookup_label_in(pts, label) ==
  LET i == first_index(pts, label)
  IN IF i # 0 THEN Ret(0, radar_reorder(pts[i][2])) ELSE Ret(1, "Name not found on that plot.")

\* RadarPlot.__init__ with a list of one to MaxAxes axis labels.
InitRadar ==
  /\ kind = "RadarPlot"
  /\ minx = None /\ maxx = None /\ miny = None /\ maxy = None
  /\ labels \in AxisLabelLists
  /\ axes = Len(labels)
  /\ points = <<>>
  /\ crowdsourced_points = <<>>
  /\ crowdsourceable = <<>>
  /\ op = "idle"
  /\ args = <<>>
  /\ ret = RetNone
  /\ pre = NoSnapshot
  /\ contributed = {}
  /\ callers = [c \in Callers |-> IdleCaller] /\ overlapped = FALSE /\ both_scanned = FALSE

\* RadarPlot.plot_point: the length test, the reordering, the range test, then
\* the scan and the store.
radar_plot_point(label, vals) ==
  /\ Call("plot_point", <<label, vals>>)
  /\ IF Len(vals) # Len(labels)
     THEN /\ ret' = Ret(1, "That list doesn't match the number of labels.")
          /\ UNCHANGED points
     ELSE IF \E i \in 1..Len(vals) : radar_reorder(vals)[i] > 10 \/ radar_reorder(vals)[i] < 0
     THEN /\ ret' = Ret(1, "All points must be within the bounds [0, 10]!")
          /\ UNCHANGED points
     ELSE /\ first_index(points, label) = 0 => Len(points) < MaxRadarPoints
          /\ points' =
               IF first_index(points, label) # 0
               THEN [points EXCEPT ![first_index(points, label)] = <<label[1], radar_reorder(vals)>>]
               ELSE Append(points, <<IF label # None THEN label[1] ELSE StrEmpty, radar_reorder(vals)>>)
          /\ ret' = Ret(0, "")
  /\ UNCHANGED <<kind, labels, axes, minx, maxx, miny, maxy,
               crowdsourced_points, crowdsourceable>>

\* RadarPlot.edit_plot without 'custompoints' in plot_args: __labels becomes
\* the joined str when 'labels' is given, and the third assignment then reads
\* self.__custompoints, which no RadarPlot method has set: AttributeError.
radar_edit_plot(plot_args) ==
  /\ Call("edit_plot", <<plot_args>>)
  /\ labels' = (IF plot_args.labels # None THEN join(plot_args.labels[1]) ELSE labels)
  /\ axes' = (IF plot_args.labels # None THEN Len(plot_args.labels[1]) ELSE axes)
  /\ ret' = Raised("AttributeError")
  /\ UNCHANGED <<kind, minx, maxx, miny, maxy, points, crowdsourced_points, crowdsourceable>>

NextRadar ==
  \/ /\ op = "idle"
     /\ \E label \in RadarLabelArgs, vals \in RadarVectors : radar_plot_point(label, vals)
  \/ \E plot_args \in RadarEditArgs : radar_edit_plot(plot_args)
  \/ Return

SpecRadar == InitRadar /\ [][NextRadar]_vars

\* ------------------------------------------------ RadarPlot crowdsourcing
\* Vectors given to RadarPlot.add_crowdsource_point.
RadarCrowdVectors == {<<0>>, <<10, 0>>, <<11>>}
\* Vectors given to plot_point next to the crowdsource methods.
RadarPointVectors == {<<10>>, <<0, 10>>, <<0, 10, 10>>}

\* RadarPlot.add_crowdsource_point: the consent loop (which rebinds id), the
\* range test of every value (there is no length test), the reordering, the
\* store under (label, id).
radar_add_crowdsource_point(id, label, vals) ==
  /\ Call("add_crowdsource_point", <<id, label, vals>>)
  /\ IF ~consent_found(crowdsourceable, label)
     THEN /\ ret' = Ret(1, <<"That person (", label,
                             ") has not consented to being crowdsource plotted!">>)
          /\ UNCHANGED crowdsourced_points
     ELSE IF \E i \in 1..Len(vals) : vals[i] > 10 \/ vals[i] < 0
     THEN /\ ret' = Ret(1, "All points must be within the bounds [0, 10]!")
          /\ UNCHANGED crowdsourced_points
     ELSE /\ ~has_key(crowdsourced_points, label) => Size < MaxSize
          /\ crowdsourced_points' =
               ledger_store(crowdsourced_points, label,
                            id_after_consent_loop(id, crowdsourceable), radar_reorder(vals))
          /\ ret' = Ret(0, "Your contribution has been added!")
  /\ UNCHANGED <<kind, labels, axes, minx, maxx, miny, maxy, points, crowdsourceable>>

\* Mutant of radar_fold_entry: a matched point is kept as stored instead of
\* being indexed like a 2-D point.
radar_fold_entry_keeps_matched(updated, pts, label, d) ==
  LET i == point_index(updated, Len(pts), label)
      n == Cardinality(DOMAIN d)
  IN IF i # 0 THEN [raised |-> "", list |-> updated]
     ELSE IF \E id \in DOMAIN d : Len(d[id]) # 2
     THEN [raised |-> "ValueError", list |-> updated]
     ELSE IF n = 0 THEN [raised |-> "ZeroDivisionError", list |-> updated]
     ELSE [raised |-> "",
           list |-> Append(updated, <<label, <<dict_sum(d, 1), n>>, <<dict_sum(d, 2), n>>, 0, 0>>)]

\* One iteration of RadarPlot's loop over the ledger keys, for the entry
\* <<label, d>>: raised names the exception that leaves the method ("" for
\* none). A matched point is a 2-tuple (label, vals), so reading its index 2
\* raises IndexError; "(x2, y2)" unpacks a contributed vector, which raises
\* ValueError unless it has two values; an empty entry divides by l - 1 = 0.
radar_fold_entry(updated, pts, label, d) ==
  LET i == point_index(updated, Len(pts), label)
      n == Cardinality(DOMAIN d)
  IN IF i # 0 THEN [raised |-> "IndexError", list |-> updated]
     ELSE IF \E id \in DOMAIN d : Len(d[id]) # 2
     THEN [raised |-> "ValueError", list |-> updated]
     ELSE IF n = 0 THEN [raised |-> "ZeroDivisionError", list |-> updated]
     ELSE [raised |-> "",
           list |-> Append(updated, <<label, <<dict_sum(d, 1), n>>, <<dict_sum(d, 2), n>>, 0, 0>>)]

\* RadarPlot's loop over self.__crowdsourced_points.keys() from entry k on.
RECURSIVE radar_fold_from(_, _, _, _)
radar_fold_from(updated, pts, led, k) ==
  IF k > Len(led) THEN [raised |-> "", list |-> updated]
  ELSE LET next == radar_fold_entry(updated, pts, led[k][1], led[k][2])
       IN IF next.raised # "" THEN next
          ELSE radar_fold_from(next.list, pts, led, k + 1)

\* RadarPlot.update_points_with_crowdsource: the list it returns or the
\* exception it raises ("except AttributeError" catches none of the three).
radar_update_points_with_crowdsource ==
  /\ Call("update_points_with_crowdsource", <<>>)
  /\ ret' = (LET r == radar_fold_from(points, points, crowdsourced_points, 1)
             IN IF r.raised # "" THEN Raised(r.raised) ELSE RetList(r.list))
  /\ UNCHANGED <<kind, labels, axes, minx, maxx, miny, maxy, points,
               crowdsourced_points, crowdsourceable>>

NextRadarCrowd ==
  \/ \E label \in RadarLabelArgs, vals \in RadarPointVectors : radar_plot_point(label, vals)
  \/ \E id \in Ids, label \in Labels : add_crowdsource_consent(id, label)
  \/ \E id \in Ids, label \in Labels, vals \in RadarCrowdVectors :
       radar_add_crowdsource_point(id, label, vals)
  \/ \E id \in Ids, label \in Labels : remove_crowdsource_point(id, label)
  \/ radar_update_points_with_crowdsource
  \/ Return

SpecRadarCrowd == InitRadar /\ [][NextRadarCrowd]_vars

\* ------------------------------------------- interleaved plot_point calls
\* Plot.plot_point run by two callers on one chart object, one step per
\* statement: nothing in the class keeps a step of one call from running
\* between two steps of another.
\* The str labels the callers plot.
CallerLabels == {Some(StrA), Some(StrASp)}
\* Their (x, y, err_x, err_y) arguments.
CallerInputs == {<<5, 5, 0, 0>>, <<3, 3, 1, 3>>, <<11, 5, 0, 0>>}

\* The calls that are running.
Running == {c \in Callers : callers[c].pc # "idle"}

\* What is left unchanged by every step of a caller.
caller_frame ==
  UNCHANGED <<kind, labels, axes, minx, maxx, miny, maxy, crowdsourced_points,
              crowdsourceable, op, args, ret, pre, contributed>>

\* Caller c enters plot_point(label, x, y, err_x, err_y).
caller_call(c, label, p) ==
  /\ callers[c].pc = "idle"
  /\ Len(points) + Cardinality(Running) < MaxSize
  /\ callers' = [callers EXCEPT ![c] = [pc |-> "check", label |-> label, p |-> p,
                                        n |-> 0, i |-> 0, ret |-> RetNone]]
  /\ overlapped' = (overlapped \/ Running # {})
  /\ both_scanned' = FALSE
  /\ UNCHANGED points
  /\ caller_frame

\* The bounds test: the error is returned, or range(len(self.__points)) is
\* built from the length the list has now.
caller_check(c) ==
  /\ callers[c].pc = "check"
  /\ callers' =
       [callers EXCEPT ![c] =
          IF ~plot_point_in_bounds(@.p[1], @.p[2], @.p[3], @.p[4])
          THEN [@ EXCEPT !.pc = "idle", !.ret = Ret(1, plot_point_error)]
          ELSE [@ EXCEPT !.pc = "scan", !.n = Len(points), !.i = 1]]
  /\ UNCHANGED <<points, overlapped, both_scanned>>
  /\ caller_frame

\* One iteration of the scan: the comparison of self.__points[i][0] with label.
\* The range exhausted, the call goes on to the append.
caller_scan(c) ==
  /\ callers[c].pc = "scan"
  /\ callers' =
       [callers EXCEPT ![c] =
          IF @.i > @.n THEN [@ EXCEPT !.pc = "append"]
          ELSE IF @.label # None /\ points[@.i][1] = @.label[1] THEN [@ EXCEPT !.pc = "replace"]
          ELSE [@ EXCEPT !.i = @ + 1]]
  /\ both_scanned' =
       (both_scanned \/ /\ callers[c].i > callers[c].n
                        /\ \E d \in Callers \ {c} : /\ callers[d].pc = "append"
                                                    /\ callers[d].label = callers[c].label)
  /\ UNCHANGED <<points, overlapped>>
  /\ caller_frame

\* "self.__points[i] = (label, x, y, err_x, err_y); return 0, ''"
caller_replace(c) ==
  /\ callers[c].pc = "replace"
  /\ points' = [points EXCEPT ![callers[c].i] =
                  <<callers[c].label[1], callers[c].p[1], callers[c].p[2],
                    callers[c].p[3], callers[c].p[4]>>]
  /\ callers' = [callers EXCEPT ![c] = [@ EXCEPT !.pc = "idle", !.ret = Ret(0, "")]]
  /\ UNCHANGED <<overlapped, both_scanned>>
  /\ caller_frame

\* Mutant of caller_append: the append looks the label up again and replaces
\* the entry another call has stored meanwhile.
caller_append_rescans(c) ==
  /\ callers[c].pc = "append"
  /\ points' = plot_point_store(points, callers[c].label, callers[c].p[1], callers[c].p[2],
                                callers[c].p[3], callers[c].p[4])
  /\ callers' = [callers EXCEPT ![c] = [@ EXCEPT !.pc = "idle", !.ret = Ret(0, "")]]
  /\ UNCHANGED <<overlapped, both_scanned>>
  /\ caller_frame

\* "self.__points.append((label if label is not None else '', ...)); return 0, ''"
caller_append(c) ==
  /\ callers[c].pc = "append"
  /\ points' = Append(points,
                      <<IF callers[c].label # None THEN callers[c].label[1] ELSE StrEmpty,
                        callers[c].p[1], callers[c].p[2], callers[c].p[3], callers[c].p[4]>>)
  /\ callers' = [callers EXCEPT ![c] = [@ EXCEPT !.pc = "idle", !.ret = Ret(0, "")]]
  /\ UNCHANGED <<overlapped, both_scanned>>
  /\ caller_frame

InitInterleaved == Init /\ kind = "Plot"

NextInterleaved ==
  \/ \E c \in Callers, label \in CallerLabels, p \in CallerInputs : caller_call(c, label, p)
  \/ \E c \in Callers : caller_check(c)
  \/ \E c \in Callers : caller_scan(c)
  \/ \E c \in Callers : caller_replace(c)
  \/ \E c \in Callers : caller_append(c)

SpecInterleaved == InitInterleaved /\ [][NextInterleaved]_vars

\* ------------------------------------------------------------------ claims
\* The last call returned the tuple (code, payload) with this code.
Returned(code) == ret.shape = "tuple" /\ ret.code = code

\* The contribution of contributor id under label in a ledger: Some((x, y)), or
\* None when the ledger holds none.
contribution(led, label, id) ==
  IF \E i \in 1..Len(led) : led[i][1] = label /\ id \in DOMAIN led[i][2]
  THEN Some(led[(CHOOSE i \in 1..Len(led) : led[i][1] = label /\ id \in DOMAIN led[i][2])][2][id])
  ELSE None

\* C1 as stated: add_crowdsource_point(c, label, x, y) returns code 1 and stores
\* nothing whenever the exact pair (c, label) is not in the consent list at the
\* time of the call.
C1_exact_pair_required ==
  (op = "add_crowdsource_point"
     /\ ~(\E i \in 1..Len(pre.crowdsourceable) : pre.crowdsourceable[i] = <<args[1], args[2]>>))
  => (Returned(1) /\ crowdsourced_points = pre.crowdsourced_points)

\* C1 as amended: add_crowdsource_point(c, label, x, y) returns code 1 and stores
\* nothing whenever no pair of the consent list carries the label at the time of
\* the call, for every coordinate and whatever other labels have consent.
C1_label_consent_required ==
  (op = "add_crowdsource_point"
     /\ ~(\E i \in 1..Len(pre.crowdsourceable) : pre.crowdsourceable[i][2] = args[2]))
  => (Returned(1) /\ crowdsourced_points = pre.crowdsourced_points)

\* C1 witness: a contribution with an in-bounds coordinate is refused while the
\* consent list holds a pair, but none for the label.
C1_witness ==
  /\ op = "add_crowdsource_point"
  /\ Len(pre.crowdsourceable) > 0
  /\ \A i \in 1..Len(pre.crowdsourceable) : pre.crowdsourceable[i][2] # args[2]
  /\ check_bounds(args[3], args[4])
  /\ Returned(1)

\* C2: after add_crowdsource_point(c, label, x, y) returns code 0, the ledger
\* maps contributor c under label to (x, y), and the contribution of every other
\* (label, contributor) is what it was before the call.
C2_stored_under_contributor ==
  (op = "add_crowdsource_point" /\ Returned(0))
  => /\ contribution(crowdsourced_points, args[2], args[1]) = Some(<<args[3], args[4]>>)
     /\ \A l \in Labels, i \in Ids :
          <<l, i>> # <<args[2], args[1]>>
          => contribution(crowdsourced_points, l, i) = contribution(pre.crowdsourced_points, l, i)

\* C3: in every reachable state no two entries of the point list have the same
\* label.
C3_labels_unique ==
  \A i, j \in 1..Len(points) : i # j => points[i][1] # points[j][1]

\* C4: on Plot, every stored point (label, x, y, errX, errY) satisfies the
\* chart's current bounds at x+errX, x-errX, y+errY and y-errY, a None bound
\* meaning no constraint.
C4_points_within_current_bounds ==
  kind = "Plot" =>
    \A i \in 1..Len(points) :
      LET x == points[i][2]  y == points[i][3]  ex == points[i][4]  ey == points[i][5]
      IN /\ minx # None => (x + ex >= minx[1] /\ x - ex >= minx[1])
         /\ maxx # None => (x + ex <= maxx[1] /\ x - ex <= maxx[1])
         /\ miny # None => (y + ey >= miny[1] /\ y - ey >= miny[1])
         /\ maxy # None => (y + ey <= maxy[1] /\ y - ey <= maxy[1])

\* C5: a call of plot_point, remove_point, add_crowdsource_point,
\* remove_crowdsource_consent or remove_crowdsource_point that returns code 1
\* leaves the point list, the consent list and the ledger (its label keys and
\* every per-label map) as they were before the call.
C5_failure_changes_nothing ==
  (op \in {"plot_point", "remove_point", "add_crowdsource_point",
           "remove_crowdsource_consent", "remove_crowdsource_point"}
     /\ Returned(1))
  => /\ points = pre.points
     /\ crowdsourceable = pre.crowdsourceable
     /\ crowdsourced_points = pre.crowdsourced_points

\* C6: remove_crowdsource_consent(id, label) for a pair that is not in the
\* consent list returns (1, message) without raising, and leaves the consent
\* list unchanged.
C6_revoke_absent_returns_error ==
  (op = "remove_crowdsource_consent"
     /\ ~(\E i \in 1..Len(pre.crowdsourceable) : pre.crowdsourceable[i] = <<args[1], args[2]>>))
  => (Returned(1) /\ crowdsourceable = pre.crowdsourceable)

\* C7: on every chart class, an add_crowdsource_point call that stores the
\* contribution returns a (code, payload) pair with code 0.
C7_store_returns_code_0 ==
  (op = "add_crowdsource_point" /\ crowdsourced_points # pre.crowdsourced_points)
  => Returned(0)

\* The fraction <<n, d>> has the value of the number v.
frac_is(f, v) == f[2] # 0 /\ f[1] = v * f[2]

\* C8: in every reachable state in which no label has any contribution,
\* update_points_with_crowdsource returns a list equal in value to the stored
\* point list: same length, same order, same label and coordinates.
C8_fold_without_contributions ==
  (op = "update_points_with_crowdsource"
     /\ \A k \in 1..Len(crowdsourced_points) : DOMAIN crowdsourced_points[k][2] = {})
  => /\ ret.shape = "list"
     /\ Len(ret.payload) = Len(points)
     /\ \A i \in 1..Len(points) :
          /\ ret.payload[i][1] = points[i][1]
          /\ frac_is(ret.payload[i][2], points[i][2])
          /\ frac_is(ret.payload[i][3], points[i][3])
          /\ ret.payload[i][4] = points[i][4]
          /\ ret.payload[i][5] = points[i][5]

\* C9: for every string label and every (x, y, errX, errY) that passes the
\* chart's bounds check, plot_point returns code 0 and a lookup_label with the
\* same label right after it returns (0, (x, y)), whatever the chart held before.
C9_plot_then_lookup ==
  (op = "plot_point" /\ args[1] # None
     /\ plot_point_in_bounds(args[2], args[3], args[4], args[5]))
  => (Returned(0) /\ lookup_label(args[1]) = Ret(0, <<args[2], args[3]>>))

\* C9 witness: an accepted plot_point overwrites a point of the same label that
\* had other coordinates, on a chart that also holds consent and a ledger entry.
C9_witness ==
  /\ op = "plot_point" /\ args[1] # None /\ Returned(0)
  /\ \E i \in 1..Len(pre.points) :
       pre.points[i][1] = args[1][1] /\ <<pre.points[i][2], pre.points[i][3]>> # <<args[2], args[3]>>
  /\ Len(crowdsourceable) > 0
  /\ Len(crowdsourced_points) > 0

\* C10: plot_point with a string label that is in the point list replaces that
\* entry at its index with (label, x, y, errX, errY), the length, the order and
\* every other entry unchanged; with a label not in the list it appends exactly
\* one entry at the end.
C10_replace_in_place_or_append ==
  (op = "plot_point" /\ args[1] # None /\ Returned(0))
  => LET new == <<args[1][1], args[2], args[3], args[4], args[5]>>
         old == pre.points
     IN IF \E i \in 1..Len(old) : old[i][1] = args[1][1]
        THEN /\ Len(points) = Len(old)
             /\ \E i \in 1..Len(old) :
                  /\ old[i][1] = args[1][1]
                  /\ \A j \in 1..(i - 1) : old[j][1] # args[1][1]
                  /\ points[i] = new
                  /\ \A j \in 1..Len(old) : j # i => points[j] = old[j]
        ELSE points = old \o <<new>>

\* C10 witness: the first of two stored points is replaced by a different tuple
\* of the same label.
C10_witness ==
  /\ op = "plot_point" /\ args[1] # None /\ Returned(0)
  /\ Len(pre.points) = 2
  /\ pre.points[1][1] = args[1][1]
  /\ pre.points[2][1] # args[1][1]
  /\ pre.points[1] # <<args[1][1], args[2], args[3], args[4], args[5]>>

\* C11: remove_point(label) returns code 1 and changes nothing when no stored
\* point has the label; when a stored point has it, the call returns code 0 and
\* a lookup_label(label) right after it returns code 1.
C11_remove_then_lookup_fails ==
  op = "remove_point"
  => IF \E i \in 1..Len(pre.points) : args[1] # None /\ pre.points[i][1] = args[1][1]
     THEN /\ Returned(0)
          /\ lookup_label(args[1]).code = 1
     ELSE /\ Returned(1)
          /\ points = pre.points
          /\ crowdsourceable = pre.crowdsourceable
          /\ crowdsourced_points = pre.crowdsourced_points

\* The entry of a label in a ledger as Some(map), or None when the ledger has
\* no key for the label.
entry_of(led, label) ==
  IF \E i \in 1..Len(led) : led[i][1] = label
  THEN Some(led[CHOOSE i \in 1..Len(led) : led[i][1] = label][2])
  ELSE None

\* C12: after remove_point(label) returns code 0, the ledger has no entry for
\* the label, the entry of every other label is what it was before the call,
\* and the consent list is unchanged.
C12_remove_point_purges_ledger ==
  (op = "remove_point" /\ Returned(0))
  => /\ entry_of(crowdsourced_points, args[1][1]) = None
     /\ \A l \in Labels \cup {StrEmpty} :
          l # args[1][1] => entry_of(crowdsourced_points, l) = entry_of(pre.crowdsourced_points, l)
     /\ Len(crowdsourced_points) =
          Len(pre.crowdsourced_points)
            - (IF entry_of(pre.crowdsourced_points, args[1][1]) # None THEN 1 ELSE 0)
     /\ crowdsourceable = pre.crowdsourceable

\* C12 witness: the removed point's label had a contribution in the ledger, and
\* the ledger held the entry of another label too.
C12_witness ==
  /\ op = "remove_point" /\ Returned(0)
  /\ \E i \in 1..Len(pre.crowdsourced_points) :
       pre.crowdsourced_points[i][1] = args[1][1] /\ DOMAIN pre.crowdsourced_points[i][2] # {}
  /\ Len(crowdsourced_points) = 1

\* The fraction f has the value num / den.
frac_eq(f, num, den) == f[2] # 0 /\ f[1] * den = num * f[2]

\* C13: for a ledger label L without spaces that has n >= 1 contributions, if a
\* stored point labelled L exists at (bx, by, ex, ey) the returned list has at
\* its index the point (L, (bx + sum xi)/(n+1), (by + sum yi)/(n+1), ex, ey),
\* and if none exists the list has (L, (sum xi)/n, (sum yi)/n, 0, 0) after the
\* stored points; a point whose label has no ledger entry is returned unchanged.
C13_fold_averages ==
  op = "update_points_with_crowdsource"
  => /\ \A k \in 1..Len(crowdsourced_points) :
          LET L == crowdsourced_points[k][1]
              d == crowdsourced_points[k][2]
              n == Cardinality(DOMAIN d)
              sx == dict_sum(d, 1)
              sy == dict_sum(d, 2)
          IN (replace_spaces(L) = L /\ n >= 1)
             => /\ ret.shape = "list"
                /\ \A i \in 1..Len(points) :
                     points[i][1] = L
                     => /\ i <= Len(ret.payload)
                        /\ ret.payload[i][1] = L
                        /\ frac_eq(ret.payload[i][2], points[i][2] + sx, n + 1)
                        /\ frac_eq(ret.payload[i][3], points[i][3] + sy, n + 1)
                        /\ ret.payload[i][4] = points[i][4]
                        /\ ret.payload[i][5] = points[i][5]
                /\ (\A i \in 1..Len(points) : points[i][1] # L)
                     => \E j \in (Len(points) + 1)..Len(ret.payload) :
                          /\ ret.payload[j][1] = L
                          /\ frac_eq(ret.payload[j][2], sx, n)
                          /\ frac_eq(ret.payload[j][3], sy, n)
                          /\ ret.payload[j][4] = 0
                          /\ ret.payload[j][5] = 0
     /\ ret.shape = "list"
        => \A i \in 1..Len(points) :
             (\A k \in 1..Len(crowdsourced_points) : crowdsourced_points[k][1] # points[i][1])
             => /\ i <= Len(ret.payload)
                /\ ret.payload[i][1] = points[i][1]
                /\ frac_is(ret.payload[i][2], points[i][2])
                /\ frac_is(ret.payload[i][3], points[i][3])
                /\ ret.payload[i][4] = points[i][4]
                /\ ret.payload[i][5] = points[i][5]

\* C14: add_crowdsource_point for a label returns code 0 only if the consent
\* list held, at the time of the call, a pair carrying the label and (x, y)
\* satisfies the chart's bounds predicate; in every other case it returns code 1
\* and the ledger is unchanged, and without consent the error is the
\* missing-consent one also when the coordinate is out of bounds.
C14_consent_and_bounds_gate ==
  op = "add_crowdsource_point"
  => LET consented == \E i \in 1..Len(pre.crowdsourceable) : pre.crowdsourceable[i][2] = args[2]
         inside == check_bounds(args[3], args[4])
     IN /\ Returned(0) => (consented /\ inside)
        /\ ~(consented /\ inside)
             => /\ Returned(1)
                /\ crowdsourced_points = pre.crowdsourced_points
                /\ ret.payload = (IF ~consented
                                  THEN "That person has not consented to being crowdsource plotted!"
                                  ELSE "Error: The point cannot be out of bounds!")

\* C14 witness: a contribution that lacks consent and is out of bounds as well
\* is refused with the missing-consent error, on a chart that holds consent for
\* another label.
C14_witness ==
  /\ op = "add_crowdsource_point"
  /\ Len(pre.crowdsourceable) > 0
  /\ \A i \in 1..Len(pre.crowdsourceable) : pre.crowdsourceable[i][2] # args[2]
  /\ ~check_bounds(args[3], args[4])
  /\ Returned(1)
  /\ ret.payload = "That person has not consented to being crowdsource plotted!"

\* The number of times a pair occurs in a consent list.
pair_count(consent, pair) == Cardinality({i \in 1..Len(consent) : consent[i] = pair})

\* C15: add_crowdsource_consent(id, label) returns code 0 and adds the pair when
\* it was absent, removes it when it was present, every other pair staying as
\* often in the list as it was (so a second call with the same pair gives back
\* the earlier content); and in every reachable state no pair is in the consent
\* list twice.
C15_consent_toggles ==
  /\ \A i, j \in 1..Len(crowdsourceable) : i # j => crowdsourceable[i] # crowdsourceable[j]
  /\ op = "add_crowdsource_consent"
     => LET pair == <<args[1], args[2]>>
        IN /\ Returned(0)
           /\ pair_count(crowdsourceable, pair) = 1 - pair_count(pre.crowdsourceable, pair)
           /\ \A id \in Ids, l \in Labels :
                <<id, l>> # pair
                => pair_count(crowdsourceable, <<id, l>>) = pair_count(pre.crowdsourceable, <<id, l>>)

\* C15 witness: the call removes a pair that was in the list, next to another
\* pair that stays.
C15_witness ==
  /\ op = "add_crowdsource_consent" /\ Returned(0)
  /\ Len(pre.crowdsourceable) = 2
  /\ pre.crowdsourceable[1] = <<args[1], args[2]>>
  /\ crowdsourceable = <<pre.crowdsourceable[2]>>

\* C16: a call of update_points_with_crowdsource that returns leaves the stored
\* point list, the consent list and the ledger as they were, so that
\* lookup_label gives for every label what it gave before the call, also when
\* contributions exist.
C16_fold_changes_nothing ==
  (op = "update_points_with_crowdsource" /\ ret.shape = "list")
  => /\ points = pre.points
     /\ crowdsourceable = pre.crowdsourceable
     /\ crowdsourced_points = pre.crowdsourced_points
     /\ \A label \in LabelArgs : lookup_label_in(points, label) = lookup_label_in(pre.points, label)

\* C16 witness: the call returns a list that differs from the stored points:
\* a contribution moved a stored point and another label got a point of its own.
C16_witness ==
  /\ op = "update_points_with_crowdsource" /\ ret.shape = "list"
  /\ Len(points) > 0
  /\ Len(ret.payload) > Len(points)
  /\ ~frac_is(ret.payload[1][2], points[1][2])

\* C17: on Plot, BoxedPlot and AlignmentChart, plot_point(label, x, y, errX,
\* errY) returns code 0 exactly when x+errX and x-errX are within [minx, maxx]
\* and y+errY and y-errY within [miny, maxy], a None bound not constraining;
\* otherwise it returns code 1, the payload carries the four bounds with "_"
\* for a None bound, and the point list is unchanged.
C17_rect_bounds_gate ==
  (op = "plot_point" /\ kind # "TrianglePlot")
  => LET x == args[2]  y == args[3]  ex == args[4]  ey == args[5]
         between(lo, v, hi) == (lo = None \/ v >= lo[1]) /\ (hi = None \/ v <= hi[1])
         shown(b) == IF b = None THEN "_" ELSE b[1]
     IN IF /\ between(minx, x + ex, maxx) /\ between(minx, x - ex, maxx)
           /\ between(miny, y + ey, maxy) /\ between(miny, y - ey, maxy)
        THEN Returned(0)
        ELSE /\ Returned(1)
             /\ Len(ret.payload) = 5
             /\ \A k \in 1..4 : ret.payload[k + 1] = shown(<<minx, maxx, miny, maxy>>[k])
             /\ points = pre.points

\* C17 witness: on a Plot with minx unset, the upper corner (x+errX, y+errY) is
\* within the bounds and y-errY is below miny; the call is refused and the
\* chart keeps its point.
C17_witness ==
  /\ op = "plot_point" /\ kind = "Plot" /\ Returned(1)
  /\ minx = None /\ maxx # None /\ miny # None /\ maxy # None
  /\ args[2] + args[4] <= maxx[1]
  /\ args[3] + args[5] <= maxy[1] /\ args[3] + args[5] >= miny[1]
  /\ args[3] - args[5] < miny[1]
  /\ Len(points) = 1

\* C18: TrianglePlot's bounds predicate holds of a coordinate (x, y) of the
\* grid exactly when y >= 0, y <= 2x and y <= 20 - 2x (the closed triangle
\* (0,0), (5,10), (10,0)): plot_point without errors, which tests nothing but
\* (x, y), is accepted exactly then; (5,5) is accepted and (9,9) is refused.
C18_triangle_predicate ==
  (op = "plot_point" /\ kind = "TrianglePlot" /\ args[4] = 0 /\ args[5] = 0)
  => LET x == args[2]  y == args[3]
     IN /\ tri_check_bounds(x, y) <=> (y >= 0 /\ y <= 2 * x /\ y <= 20 - 2 * x)
        /\ Returned(0) <=> (y >= 0 /\ y <= 2 * x /\ y <= 20 - 2 * x)
        /\ Returned(1) <=> ~(y >= 0 /\ y <= 2 * x /\ y <= 20 - 2 * x)
        /\ <<x, y>> = <<5, 5>> => Returned(0)
        /\ <<x, y>> = <<9, 9>> => Returned(1)

\* C18 witness: (9, 9), within [0, 10] on both axes and outside the triangle,
\* is refused.
C18_witness ==
  /\ op = "plot_point" /\ kind = "TrianglePlot"
  /\ args[2] = 9 /\ args[3] = 9 /\ args[4] = 0 /\ args[5] = 0
  /\ Returned(1)

\* C20: on TrianglePlot, whenever plot_point(label, x, y, errX, errY) returns
\* code 0, the four corners (x+errX, y+errY), (x+errX, y-errY), (x-errX, y+errY)
\* and (x-errX, y-errY) lie in the closed triangle (0,0), (5,10), (10,0).
C20_error_rectangle_in_triangle ==
  (op = "plot_point" /\ kind = "TrianglePlot" /\ Returned(0))
  => LET x == args[2]  y == args[3]  ex == args[4]  ey == args[5]
         in_triangle(u, v) == v >= 0 /\ v <= 2 * u /\ v <= 20 - 2 * u
     IN /\ in_triangle(x + ex, y + ey)
        /\ in_triangle(x + ex, y - ey)
        /\ in_triangle(x - ex, y + ey)
        /\ in_triangle(x - ex, y - ey)

\* C19: RadarPlot.plot_point(label, vals) returns code 1 and leaves the point
\* list unchanged when the length of vals differs from the number of axis
\* labels or some value is below 0 or above 10; otherwise it returns code 0,
\* and the list holds under the label a vector with the values of vals, in the
\* place of the first point of that label or, when there is none, at the end,
\* the other points unchanged.
C19_radar_plot_point_gate ==
  (op = "plot_point" /\ kind = "RadarPlot")
  => LET label == args[1]
         vals == args[2]
         key == IF label = None THEN StrEmpty ELSE label[1]
         old == pre.points
         holds_vals(p) ==
           /\ p[1] = key
           /\ Len(p[2]) = Len(vals)
           /\ \A v \in RadarValues :
                Cardinality({i \in 1..Len(vals) : p[2][i] = v})
                  = Cardinality({i \in 1..Len(vals) : vals[i] = v})
     IN IF Len(vals) # axes \/ \E i \in 1..Len(vals) : vals[i] < 0 \/ vals[i] > 10
        THEN Returned(1) /\ points = old
        ELSE /\ Returned(0)
             /\ IF label # None /\ \E i \in 1..Len(old) : old[i][1] = key
                THEN /\ Len(points) = Len(old)
                     /\ \E i \in 1..Len(old) :
                          /\ old[i][1] = key
                          /\ \A j \in 1..(i - 1) : old[j][1] # key
                          /\ holds_vals(points[i])
                          /\ \A j \in 1..Len(old) : j # i => points[j] = old[j]
                ELSE /\ Len(points) = Len(old) + 1
                     /\ SubSeq(points, 1, Len(old)) = old
                     /\ holds_vals(points[Len(points)])

\* C21: remove_crowdsource_point(id, label) returns code 1 exactly when the
\* ledger has no entry for the label or that entry has no contribution keyed
\* by id; otherwise it returns code 0, the contribution keyed by id under the
\* label is gone, and every other contribution, the point list and the consent
\* list are what they were.
C21_remove_own_contribution ==
  op = "remove_crowdsource_point"
  => LET id == args[1]
         label == args[2]
         had == contribution(pre.crowdsourced_points, label, id) # None
     IN IF had
        THEN /\ Returned(0)
             /\ contribution(crowdsourced_points, label, id) = None
             /\ \A l \in Labels, i \in Ids :
                  <<l, i>> # <<label, id>>
                  => contribution(crowdsourced_points, l, i) = contribution(pre.crowdsourced_points, l, i)
             /\ points = pre.points
             /\ crowdsourceable = pre.crowdsourceable
        ELSE Returned(1)

\* C21 witness: one of two contributions under a label is removed and the
\* other stays.
C21_witness ==
  /\ op = "remove_crowdsource_point" /\ Returned(0)
  /\ \E i \in Ids :
       /\ i # args[1]
       /\ contribution(pre.crowdsourced_points, args[2], i) # None
       /\ contribution(crowdsourced_points, args[2], i) # None

\* C22: on RadarPlot, for every vector vals with as many elements as the chart
\* has axes (one or more) and values in [0, 10], plot_point(label, vals) with a
\* string label followed by lookup_label(label) returns (0, vals), the elements
\* in the caller's order.
C22_radar_round_trip ==
  (op = "plot_point" /\ kind = "RadarPlot" /\ args[1] # None
     /\ Len(args[2]) >= 1 /\ Len(args[2]) = axes
     /\ \A i \in 1..Len(args[2]) : args[2][i] >= 0 /\ args[2][i] <= 10)
  => radar_lookup_label_in(points, args[1]) = Ret(0, args[2])

\* C23: in every reachable state update_points_with_crowdsource returns a point
\* list and raises no ZeroDivisionError, also when a label without a stored
\* point has a ledger entry with zero contributions.
C23_fold_returns_a_list ==
  op = "update_points_with_crowdsource"
  => (ret.shape # "raise" /\ ret.shape = "list")

\* C24: if add_crowdsource_point(c, label, x, y) returned code 0 and neither
\* remove_point(label) nor remove_crowdsource_point(c, label) was called since,
\* remove_crowdsource_point(c, label) returns code 0, and afterwards the ledger
\* holds nothing under c for the label, nor (x, y) under another id unless
\* another contributor's standing contribution for the label is (x, y) too.
C24_contributor_can_withdraw ==
  op = "remove_crowdsource_point"
  => \A t \in contributed :
       <<t[1], t[2]>> = <<args[1], args[2]>>
       => /\ Returned(0)
          /\ contribution(crowdsourced_points, t[2], t[1]) = None
          /\ (\A u \in contributed : (u[2] = t[2] /\ u[3] = t[3]) => u[1] = t[1])
             => \A i \in Ids : contribution(crowdsourced_points, t[2], i) # Some(t[3])

\* C25: in every reachable state where the stored labels are pairwise
\* distinct, the list returned by update_points_with_crowdsource has pairwise
\* distinct labels and has at the index of each stored point a point with that
\* point's stored label, labels with spaces included.
C25_fold_keeps_labels ==
  (op = "update_points_with_crowdsource" /\ ret.shape = "list"
     /\ \A i, j \in 1..Len(points) : i # j => points[i][1] # points[j][1])
  => /\ \A i, j \in 1..Len(ret.payload) : i # j => ret.payload[i][1] # ret.payload[j][1]
     /\ Len(ret.payload) >= Len(points)
     /\ \A i \in 1..Len(points) : ret.payload[i][1] = points[i][1]

\* C26: on BoxedPlot, every point of the list returned by
\* update_points_with_crowdsource has x and y within [-10, 10].
C26_boxed_fold_within_bounds ==
  (op = "update_points_with_crowdsource" /\ kind = "BoxedPlot" /\ ret.shape = "list")
  => \A i \in 1..Len(ret.payload) :
       LET x == ret.payload[i][2]
           y == ret.payload[i][3]
       IN /\ x[2] > 0 /\ y[2] > 0
          /\ -10 * x[2] <= x[1] /\ x[1] <= 10 * x[2]
          /\ -10 * y[2] <= y[1] /\ y[1] <= 10 * y[2]

\* C26 witness: a stored point at the corner (10, 10) is averaged with a
\* contribution at the same corner, and a label without a point gets the
\* average of its contributions.
C26_witness ==
  /\ op = "update_points_with_crowdsource" /\ kind = "BoxedPlot" /\ ret.shape = "list"
  /\ Len(points) = 1 /\ points[1][2] = 10
  /\ Len(ret.payload) = 2
  /\ ret.payload[1][2] = <<20, 2>>
  /\ ret.payload[2][2][2] = 1

\* C27: add_crowdsource_consent and remove_crowdsource_consent leave the point
\* list and the ledger unchanged; and a label's contributions are averaged by
\* update_points_with_crowdsource also when no consent pair carries the label:
\* the returned list has a point of that label whose x and y are the means of
\* the contributions, or of a stored point and the contributions.
C27_consent_ops_touch_consent_only ==
  /\ op \in {"add_crowdsource_consent", "remove_crowdsource_consent"}
     => (points = pre.points /\ crowdsourced_points = pre.crowdsourced_points)
  /\ (op = "update_points_with_crowdsource" /\ ret.shape = "list")
     => \A k \in 1..Len(crowdsourced_points) :
          LET L == crowdsourced_points[k][1]
              d == crowdsourced_points[k][2]
              n == Cardinality(DOMAIN d)
          IN (n >= 1 /\ \A c \in 1..Len(crowdsourceable) : crowdsourceable[c][2] # L)
             => \E j \in 1..Len(ret.payload) :
                  /\ ret.payload[j][1] = L
                  /\ \/ /\ frac_eq(ret.payload[j][2], dict_sum(d, 1), n)
                        /\ frac_eq(ret.payload[j][3], dict_sum(d, 2), n)
                     \/ \E i \in 1..Len(points) :
                          /\ frac_eq(ret.payload[j][2], points[i][2] + dict_sum(d, 1), n + 1)
                          /\ frac_eq(ret.payload[j][3], points[i][3] + dict_sum(d, 2), n + 1)

\* C27 witness: the last consent for a label is revoked while the ledger holds
\* a contribution for it.
C27_witness ==
  /\ op \in {"add_crowdsource_consent", "remove_crowdsource_consent"} /\ Returned(0)
  /\ Len(crowdsourceable) < Len(pre.crowdsourceable)
  /\ \A c \in 1..Len(crowdsourceable) : crowdsourceable[c][2] # args[2]
  /\ \E i \in Ids : contribution(crowdsourced_points, args[2], i) # None

\* C28: on RadarPlot, update_points_with_crowdsource returns the stored points
\* unchanged when the ledger is empty, and raises whenever some ledger key
\* matches the label of a stored point.
C28_radar_fold_raises_on_match ==
  (op = "update_points_with_crowdsource" /\ kind = "RadarPlot")
    => /\ crowdsourced_points = <<>> => (ret.shape = "list" /\ ret.payload = points)
       /\ (\E k \in 1..Len(crowdsourced_points), i \in 1..Len(points) :
             replace_spaces(points[i][1]) = crowdsourced_points[k][1])
          => ret.shape = "raise"

\* A radar chart with a stored point "a" and a contribution for "a": the call raises.
C28_witness ==
  /\ op = "update_points_with_crowdsource" /\ kind = "RadarPlot"
  /\ ret.shape = "raise"
  /\ \E k \in 1..Len(crowdsourced_points), i \in 1..Len(points) :
       /\ points[i][1] = crowdsourced_points[k][1]
       /\ DOMAIN crowdsourced_points[k][2] # {}

\* C29: on RadarPlot, plot_point accepts a vector only if its length equals the
\* number of axis labels the chart was last given, by the constructor or by
\* the 'labels' argument of edit_plot, counted as a list of labels.
C29_radar_length_matches_axes ==
  (op = "plot_point" /\ kind = "RadarPlot" /\ ret.shape = "tuple" /\ ret.code = 0)
    => Len(args[2]) = axes

\* The number of points of a list that carry a label.
label_count(pts, label) == Cardinality({i \in 1..Len(pts) : pts[i][1] = label})

\* C30: with no mutual exclusion, two plot_point calls for the same absent str
\* label whose scans both finish before either appends leave two points with
\* that label; as long as every call has run to completion before the next
\* one started, no two points carry the same label.
C30_interleaved_plot_point_duplicates ==
  /\ (both_scanned /\ Running = {})
       => label_count(points, callers[1].label[1]) >= 2
  /\ ~overlapped
       => \A i, j \in 1..Len(points) : i # j => points[i][1] # points[j][1]

\* Both callers have returned (0, "") from interleaved calls for the label
\* "a", absent before, and the chart holds two points labelled "a".
C30_witness ==
  /\ both_scanned /\ overlapped /\ Running = {}
  /\ \A c \in Callers :
       callers[c].label = Some(StrA) /\ callers[c].ret.shape = "tuple" /\ callers[c].ret.code = 0
  /\ Len(points) = 2 /\ label_count(points, StrA) = 2

====
